---------------------------- MODULE Spec2Model ----------------------------
(***************************************************************************)
(* The authenticated request / refresh engine of WelcomeSignClient         *)
(* (src/welcomesign.js): _request, _refreshAccessToken and the public      *)
(* operations that drive them.                                             *)
(*                                                                         *)
(* JavaScript runs one task at a time: the arrival of a response resumes   *)
(* the awaiting async function, and every continuation that this makes     *)
(* runnable (promise reactions, i.e. microtasks) runs before the next       *)
(* response is delivered.  One action of the model is therefore one such    *)
(* task: a synchronous call of a public operation up to its first await,    *)
(* or the delivery of one response together with all the continuations it   *)
(* wakes.  The server is external and answers every request with any        *)
(* status; it issues a fresh token pair on every successful login and       *)
(* refresh.                                                                 *)
(***************************************************************************)
EXTENDS Integers, Sequences, FiniteSets, TLC

\* ------------------------------------------------------------------ bounds
\* Number of public operation calls in one behaviour.
MaxCalls == 2

\* The value JavaScript's null takes in the model; tokens are 1, 2, ...
Null == 0

Calls == 1..MaxCalls

\* The public operations of this model.
Ops == {"getSessions", "login", "logout", "getDeviceInfo"}

\* Response statuses the server may answer with; NoStatus is the status of an
\* error that has none (fetch rejected or the body was not JSON).
OkStatus == {200}
ErrStatus == {401, 500}
NoStatus == 0

VARIABLES
    token,                  \* this.token
    refreshToken,           \* this.refreshToken
    deviceToken,            \* this.deviceToken
    isRefreshing,           \* this.isRefreshing
    refreshPromise,         \* this.refreshPromise: Null, or the id of the pending refresh
    onTokenRefresh,         \* whether options.onTokenRefresh was given
    onAuthError,            \* whether options.onAuthError was given
    onDeviceSessionInvalid, \* whether options.onDeviceSessionInvalid was given
    calls,                  \* the public operation calls, by slot
    refreshes,              \* the refresh operations started so far, by id: the
                            \* request each sent and the calls awaiting its promise
                            \* in the order they began to wait
    issued,                 \* server: the last token pair it issued
    notes,                  \* what the last step did: the callbacks it invoked
                            \* (and the page reloads), in order,
    finished,               \* the calls it completed, with their outcome,
    settled,                \* and the refresh operations it settled
    stores,                 \* this.storage, localStorage and sessionStorage:
                            \* whether each exists and what it holds
    timer,                  \* the interval timer of startDeviceHeartbeat
    persist,                \* whether createClient made the client
    util                    \* the arguments and results of the limit utilities

vars == <<token, refreshToken, deviceToken, isRefreshing, refreshPromise,
          onTokenRefresh, onAuthError, onDeviceSessionInvalid, calls,
          refreshes, issued, notes, finished, settled, stores, timer,
          persist, util>>

\* ------------------------------------------------------- request descriptors
NoAuth == [kind |-> "none", val |-> Null]

\* The options object each public operation hands to _request.
Options(op) ==
    CASE op = "getSessions" ->
           [endpoint |-> "/auth/sessions", method |-> "GET", body |-> "none",
            auth |-> TRUE, useDeviceToken |-> FALSE, skipTokenRefresh |-> FALSE]
      [] op = "login" ->
           [endpoint |-> "/auth/login", method |-> "POST", body |-> "credentials",
            auth |-> FALSE, useDeviceToken |-> FALSE, skipTokenRefresh |-> FALSE]
      [] op = "logout" ->
           [endpoint |-> "/auth/logout", method |-> "POST", body |-> "none",
            auth |-> TRUE, useDeviceToken |-> FALSE, skipTokenRefresh |-> FALSE]
      [] op = "getDeviceInfo" ->
           [endpoint |-> "/device/info", method |-> "GET", body |-> "none",
            auth |-> TRUE, useDeviceToken |-> TRUE, skipTokenRefresh |-> FALSE]
      [] op = "deviceHeartbeat" ->
           [endpoint |-> "/device/heartbeat", method |-> "POST", body |-> "none",
            auth |-> TRUE, useDeviceToken |-> TRUE, skipTokenRefresh |-> FALSE]
      [] op = "register" ->
           [endpoint |-> "/auth/register", method |-> "POST", body |-> "userData",
            auth |-> FALSE, useDeviceToken |-> FALSE, skipTokenRefresh |-> FALSE]
      [] op = "registerDevice" ->
           [endpoint |-> "/devices/register", method |-> "POST",
            body |-> "registrationData",
            auth |-> TRUE, useDeviceToken |-> FALSE, skipTokenRefresh |-> FALSE]

\* Every options object _request can be handed, as far as the flags it reads
\* go: the resource operations pass their options through unchanged.
Descriptors ==
    [endpoint : {"/resource"}, method : {"GET"}, body : {"none"},
     auth : BOOLEAN, useDeviceToken : BOOLEAN, skipTokenRefresh : BOOLEAN]

\* Faulty variant: the refresh request is not marked skipTokenRefresh.
RefreshOptionsNotExempt ==
    [endpoint |-> "/auth/refresh", method |-> "POST", body |-> "refresh_token",
     auth |-> FALSE, useDeviceToken |-> FALSE, skipTokenRefresh |-> FALSE]

\* The options of the request _refreshAccessToken sends.
RefreshOptions ==
    [endpoint |-> "/auth/refresh", method |-> "POST", body |-> "refresh_token",
     auth |-> FALSE, useDeviceToken |-> FALSE, skipTokenRefresh |-> TRUE]

\* Faulty variant: the retry is sent with the options unchanged.
RetryOptionsUnmarked(o) == o

\* { ...options, skipTokenRefresh: true }
RetryOptions(o) == [o EXCEPT !.skipTokenRefresh = TRUE]

\* ----------------------------------------------------------- response bodies
\* Decoded JSON: the value of a field that is absent, the values a `data`
\* field may have (null is falsy but defined) and the decoded body of a 2xx
\* response, an object with or without a `data` field.
Undefined == [json |-> "undefined"]
Payloads == {[json |-> "null"], [json |-> "object", id |-> 1]}
Bodies == [json : {"object"}, id : {2}, data : Payloads \cup {Undefined}]

\* Faulty variant: a data field is returned only when it is truthy.
UnwrapTruthy(body) ==
    IF body.data \in {[json |-> "object", id |-> 1]} THEN body.data ELSE body

\* data.data !== undefined ? data.data : data
Unwrap(body) == IF body.data # Undefined THEN body.data ELSE body

\* The decoded bodies of error responses: with a message and an error text,
\* with an error text only, with neither, and in the format API.md documents,
\* whose error field is an object holding code and message.
Text(t) == [json |-> "string", s |-> t]
ErrorBodies ==
    {[json |-> "object", message |-> Text("Property not found"), error |-> Text("not_found")],
     [json |-> "object", message |-> Undefined, error |-> Text("not_found")],
     [json |-> "object", message |-> Undefined, error |-> Undefined],
     [json |-> "object", message |-> Undefined, error |-> [json |-> "object", id |-> 1]]}

\* The error body of the responses whose body no operation looks at.
StandardError ==
    [json |-> "object", message |-> Undefined, error |-> [json |-> "object", id |-> 1]]

\* JavaScript's truthiness, and the conversion to string that new Error(x)
\* applies to its argument.
Truthy(v) == v \notin {Undefined, [json |-> "null"], Text("")}
StringOf(v) == IF v.json = "string" THEN v.s ELSE "[object Object]"

\* new Error(data.message || data.error || 'API request failed').message
ErrorMessage(body) ==
    StringOf(IF Truthy(body.message) THEN body.message
             ELSE IF Truthy(body.error) THEN body.error
             ELSE Text("API request failed"))

\* The error _request throws for a non-2xx response.
ClassifiedError(status, body) ==
    [message |-> ErrorMessage(body), status |-> status, data |-> body]

\* A call slot: the operation, where it stands (idle, sent: its request
\* awaits a response, waiting: it awaits a refresh promise, done), the options
\* and Authorization header of its request in flight and of its first request,
\* how many requests it has sent, how often it entered _refreshAccessToken and
\* the refresh it awaited, the callbacks invoked for it, and the decoded body
\* of its 2xx response with the value _request returned for it.  cycle is 0
\* for a call the application makes, 1 for a run of the heartbeat timer's
\* callback that awaits deviceHeartbeat and 2 for one that awaits getDeviceInfo,
\* where tickAuth is the header the run's heartbeat request was first sent with.
IdleCall ==
    [op |-> "none", pc |-> "idle", opts |-> RefreshOptions, auth |-> NoAuth,
     firstOpts |-> RefreshOptions, firstAuth |-> NoAuth,
     sends |-> 0, entered |-> 0, joined |-> 0,
     authErrors |-> 0, invalidations |-> 0,
     decoded |-> Undefined, value |-> Undefined, cycle |-> 0,
     tickAuth |-> NoAuth]

\* A completed call keeps nothing: its outcome is in `finished`.
DoneCall == [IdleCall EXCEPT !.pc = "done"]

\* The outcome of a call: its slot record as it completed, the result, the
\* status of the error and the refresh it came from (0: its own request), and
\* the credentials held when the response that completed it arrived (before)
\* and when the operation returned or threw (creds).
Outcome(st, c, result, status, from) ==
    [call |-> c, rec |-> st.calls[c], result |-> result, errStatus |-> status,
     errFrom |-> from,
     before |-> <<token, refreshToken, deviceToken>>,
     creds |-> <<st.token, st.refreshToken, st.deviceToken>>]

Complete(st, c, result, status, from) ==
    [st EXCEPT !.finished = Append(@, Outcome(st, c, result, status, from)),
               !.calls[c] = DoneCall]

\* The client and its environment as one record, so that the handlers below
\* are functions from state to state and can be composed in program order.
St ==
    [token |-> token, refreshToken |-> refreshToken, deviceToken |-> deviceToken,
     isRefreshing |-> isRefreshing, refreshPromise |-> refreshPromise,
     onTokenRefresh |-> onTokenRefresh, onAuthError |-> onAuthError,
     onDeviceSessionInvalid |-> onDeviceSessionInvalid,
     calls |-> calls, refreshes |-> refreshes, issued |-> issued,
     notes |-> <<>>, finished |-> <<>>, settled |-> <<>>,
     stores |-> stores, timer |-> timer, persist |-> persist]

Install(st) ==
    /\ token' = st.token
    /\ refreshToken' = st.refreshToken
    /\ deviceToken' = st.deviceToken
    /\ isRefreshing' = st.isRefreshing
    /\ refreshPromise' = st.refreshPromise
    /\ onTokenRefresh' = st.onTokenRefresh
    /\ onAuthError' = st.onAuthError
    /\ onDeviceSessionInvalid' = st.onDeviceSessionInvalid
    /\ calls' = st.calls
    /\ refreshes' = st.refreshes
    /\ issued' = st.issued
    /\ notes' = st.notes
    /\ finished' = st.finished
    /\ settled' = st.settled
    /\ stores' = st.stores
    /\ timer' = st.timer
    /\ persist' = st.persist
    /\ util' = util


\* --------------------------------------------------------------- _request
\* Faulty variant: a useDeviceToken request never falls back to the access
\* token.
AuthorizationDeviceOnly(o, st) ==
    IF o.useDeviceToken
    THEN IF st.deviceToken # Null
         THEN [kind |-> "device", val |-> st.deviceToken]
         ELSE NoAuth
    ELSE IF o.auth /\ st.token # Null
         THEN [kind |-> "access", val |-> st.token]
         ELSE NoAuth

\* The Authorization header _request attaches, from the held credentials.
Authorization(o, st) ==
    IF o.useDeviceToken /\ st.deviceToken # Null
    THEN [kind |-> "device", val |-> st.deviceToken]
    ELSE IF o.auth /\ st.token # Null
         THEN [kind |-> "access", val |-> st.token]
         ELSE NoAuth

\* A callback invocation: the token, refreshToken and expiresAt of the object
\* handed to onTokenRefresh or the status of the error handed to onAuthError,
\* and the credentials held when it is invoked.
Note(st, cb, c, tok, rt) ==
    [cb |-> cb, call |-> c, tok |-> tok, rt |-> rt, exp |-> Null, err |-> NoStatus,
     creds |-> <<st.token, st.refreshToken, st.deviceToken>>]

\* _request from its entry to `await fetch(url, config)`: the request of call
\* c is in flight with the header computed from the credentials held now.
Send(st, c, o) ==
    LET a == Authorization(o, st) IN
    [st EXCEPT !.calls[c].pc = "sent",
               !.calls[c].opts = o,
               !.calls[c].auth = a,
               !.calls[c].firstOpts = IF st.calls[c].sends = 0 THEN o ELSE @,
               !.calls[c].firstAuth = IF st.calls[c].sends = 0 THEN a ELSE @,
               !.calls[c].sends = @ + 1]

\* Faulty variant: every error status is handed to the refresh coordinator.
NeedsRefreshOnAnyError(status, o, st) ==
    st.refreshToken # Null /\ ~o.skipTokenRefresh

\* Faulty variant: skipTokenRefresh is not consulted.
NeedsRefreshIgnoringSkip(status, o, st) ==
    status = 401 /\ st.refreshToken # Null

\* The condition under which a non-2xx response is handed to the refresh
\* coordinator instead of being raised.
NeedsRefresh(status, o, st) ==
    status = 401 /\ st.refreshToken # Null /\ ~o.skipTokenRefresh

\* Faulty variant: an error without a status is reported like a 401.
CatchAuthErrorOnNoStatus(st, c, status) ==
    IF status \in {401, NoStatus} /\ st.onAuthError
    THEN LET n == [Note(st, "onAuthError", c, Null, Null) EXCEPT !.err = status]
             s1 == [st EXCEPT !.notes = Append(@, n)]
         IN IF c \in Calls
            THEN [s1 EXCEPT !.calls[c].authErrors = @ + 1]
            ELSE s1
    ELSE st

\* Faulty variant: the 401 of a request sent with skipTokenRefresh is not
\* reported.
CatchAuthErrorFirstOnly(st, c, status) ==
    IF status = 401 /\ st.onAuthError /\ c \in Calls /\ ~st.calls[c].opts.skipTokenRefresh
    THEN [st EXCEPT !.notes = Append(@, [Note(st, "onAuthError", c, Null, Null)
                                           EXCEPT !.err = status]),
                    !.calls[c].authErrors = @ + 1]
    ELSE st

\* The catch block of _request, for the request of call c (c = 0: the
\* refresh request, which belongs to no public call).
CatchAuthError(st, c, status) ==
    IF status = 401 /\ st.onAuthError
    THEN LET n == [Note(st, "onAuthError", c, Null, Null) EXCEPT !.err = status]
             s1 == [st EXCEPT !.notes = Append(@, n)]
         IN IF c \in Calls
            THEN [s1 EXCEPT !.calls[c].authErrors = @ + 1]
            ELSE s1
    ELSE st

\* ---------------------------------------------------------- clearTokens
\* The storage backends clearTokens touches, and the keys it removes from
\* localStorage and sessionStorage besides the storage key.
Backends == {"storage", "localStorage", "sessionStorage"}
DeviceKeys == {"welcomesign_device_id", "welcomesign_device_identifier",
               "welcomesign_device_token"}

\* A backend that does not exist (this.storage is null, or the global is
\* undefined), one that holds nothing of the client, and one that holds the
\* saved tokens under the storage key and the device keys.
NoBackend == [present |-> FALSE, item |-> <<>>, deviceKeys |-> {}]
EmptyBackend == [present |-> TRUE, item |-> <<>>, deviceKeys |-> {}]
FullBackend == [present |-> TRUE, item |-> <<Null, Null, 1>>, deviceKeys |-> DeviceKeys]

\* A page with nothing stored and a page that holds a paired device's data,
\* both without a storage option; and an environment without window,
\* localStorage and sessionStorage, where the storage option names a store
\* that holds the device's data.
EmptyPage == [b \in Backends |-> IF b = "storage" THEN NoBackend ELSE EmptyBackend]
DevicePage == [b \in Backends |-> IF b = "storage" THEN NoBackend ELSE FullBackend]
NoPage == [b \in Backends |-> IF b = "storage" THEN FullBackend ELSE NoBackend]

\* typeof window !== 'undefined' && window.location: window, localStorage
\* and sessionStorage are the globals of a page and exist together.
HasWindow(st) == st.stores["localStorage"].present

\* Faulty variant: the device keys are removed from this.storage as well.
RemoveStoredAllKeys(st) ==
    [st EXCEPT !.stores =
        [b \in Backends |->
            IF ~st.stores[b].present THEN st.stores[b]
            ELSE [st.stores[b] EXCEPT !.item = <<>>, !.deviceKeys = {}]]]

\* removeItem(storageKey) on this.storage, and removeItem of the storage key
\* and the device keys on localStorage and sessionStorage, each where it
\* exists.
RemoveStored(st) ==
    [st EXCEPT !.stores =
        [b \in Backends |->
            IF ~st.stores[b].present THEN st.stores[b]
            ELSE IF b = "storage" THEN [st.stores[b] EXCEPT !.item = <<>>]
            ELSE [st.stores[b] EXCEPT !.item = <<>>, !.deviceKeys = {}]]]

ClearTokens(st) ==
    RemoveStored([st EXCEPT !.token = Null, !.refreshToken = Null,
                            !.deviceToken = Null])

\* ------------------------------------------------- the limit utilities
\* A limit as the API gives it, and a result: null, a number, or (a result
\* not computed yet) undefined.
NullValue == [json |-> "null"]
Number(n) == [json |-> "number", n |-> n]

Max(a, b) == IF a >= b THEN a ELSE b

\* isWithinLimit(usage, limit)
isWithinLimit(usage, limit) ==
    IF limit = NullValue THEN FALSE
    ELSE IF limit = Number(-1) THEN TRUE
    ELSE usage < limit.n

\* Faulty variant: the remaining capacity is the bare difference.
getRemainingCapacityUnclamped(usage, limit) ==
    IF limit = NullValue THEN NullValue
    ELSE IF limit = Number(-1) THEN Number(-1)
    ELSE Number(limit.n - usage)

\* getRemainingCapacity(usage, limit)
getRemainingCapacity(usage, limit) ==
    IF limit = NullValue THEN NullValue
    ELSE IF limit = Number(-1) THEN Number(-1)
    ELSE Number(Max(0, limit.n - usage))

\* No utility has been called.
NoUtil == [usage |-> 0, limit |-> NullValue, within |-> Undefined,
           remaining |-> Undefined]

\* ------------------------------------------------------- createClient
\* storage.setItem(storageKey, JSON.stringify(object)) by the wrappers of
\* createClient; a core client has no wrapper.  The stored text is kept as
\* the tuple of the object's token fields.
SetItem(st, item) ==
    IF st.persist /\ st.stores["storage"].present
    THEN [st EXCEPT !.stores["storage"].item = item]
    ELSE st

\* The onTokenRefresh wrapper saves the object it is given, {token,
\* refreshToken, expiresAt}: it has no deviceToken field.
SaveRefreshed(st) == SetItem(st, <<st.token, st.refreshToken>>)

\* The wrappers of login, register, setTokens and setDeviceToken save
\* getTokens(): {token, refreshToken, deviceToken}.
SaveTokens(st) == SetItem(st, <<st.token, st.refreshToken, st.deviceToken>>)

\* The tokens createClient gives the constructor: those of the parsed item,
\* null for a field the item lacks and for all three when there is no item.
LoadTokens(item) ==
    IF item = <<>> THEN <<Null, Null, Null>>
    ELSE <<item[1], item[2], IF Len(item) >= 3 THEN item[3] ELSE Null>>

\* ------------------------------------------- the public operations' tails
\* How an operation that throws ends: the application's call fails with the
\* error; the timer callback catches the error of its getDeviceInfo.
Thrown(st, c) == IF st.calls[c].cycle = 0 THEN "error" ELSE "swallowed"

\* Faulty variant: the heartbeat handler itself clears the tokens and notifies
\* on a 401 before it checks /device/info.
HeartbeatFailedClearing(st, c, status, from) ==
    IF status = 401
    THEN LET cleared == ClearTokens(st)
             told == [cleared EXCEPT
                        !.notes = Append(@, Note(cleared, "onDeviceSessionInvalid",
                                                 c, Null, Null))]
             next == [IdleCall EXCEPT !.op = "getDeviceInfo", !.cycle = 2,
                                      !.authErrors = st.calls[c].authErrors,
                                      !.invalidations = st.calls[c].invalidations + 1]
         IN Send([told EXCEPT !.calls[c] = next], c, Options("getDeviceInfo"))
    ELSE Complete(st, c, "swallowed", status, from)

\* Faulty variant: the callback checks /device/info after every failure of
\* the heartbeat.
HeartbeatFailedAlwaysChecking(st, c, status, from) ==
    LET next == [IdleCall EXCEPT !.op = "getDeviceInfo", !.cycle = 2,
                                 !.tickAuth = st.calls[c].firstAuth,
                                 !.authErrors = st.calls[c].authErrors,
                                 !.invalidations = st.calls[c].invalidations]
    IN Send([st EXCEPT !.calls[c] = next], c, Options("getDeviceInfo"))

\* The catch block of the timer callback, for the error of deviceHeartbeat:
\* on a 401 it awaits getDeviceInfo, any other error is logged and dropped.
HeartbeatFailed(st, c, status, from) ==
    IF status = 401
    THEN LET next == [IdleCall EXCEPT !.op = "getDeviceInfo", !.cycle = 2,
                                      !.tickAuth = st.calls[c].firstAuth,
                                      !.authErrors = st.calls[c].authErrors,
                                      !.invalidations = st.calls[c].invalidations]
         IN Send([st EXCEPT !.calls[c] = next], c, Options("getDeviceInfo"))
    ELSE Complete(st, c, "swallowed", status, from)

\* Faulty variant: getDeviceInfo notifies without clearing the tokens.
RejectedWithoutClearing(st, c, status, from) ==
    IF st.calls[c].op = "getDeviceInfo" /\ status = 401
    THEN LET cb == IF st.onDeviceSessionInvalid
                   THEN "onDeviceSessionInvalid" ELSE "reload"
             told == [st EXCEPT
                        !.notes = Append(@, Note(st, cb, c, Null, Null)),
                        !.calls[c].invalidations = @ + 1]
         IN Complete(told, c, "error", status, from)
    ELSE Complete(st, c, "error", status, from)

\* What a public operation does when its _request promise rejects with an
\* error of the given status that came from refresh `from` (0: from the
\* operation's own request).
\* Faulty variant: a logout that fails forgets the token pair all the same.
RejectedLogoutClearing(st, c, status, from) ==
    IF st.calls[c].op = "logout"
    THEN Complete([st EXCEPT !.token = Null, !.refreshToken = Null], c,
                  Thrown(st, c), status, from)
    ELSE Complete(st, c, Thrown(st, c), status, from)

\* Faulty variant: getDeviceInfo clears the tokens only when there is a
\* callback to tell.
RejectedClearingWhenNotified(st, c, status, from) ==
    IF st.calls[c].op = "deviceHeartbeat" /\ st.calls[c].cycle = 1
    THEN HeartbeatFailed(st, c, status, from)
    ELSE IF st.calls[c].op = "getDeviceInfo" /\ status = 401
    THEN LET cleared == IF st.onDeviceSessionInvalid THEN ClearTokens(st) ELSE st
             cb == IF cleared.onDeviceSessionInvalid THEN "onDeviceSessionInvalid"
                   ELSE IF HasWindow(st) THEN "reload" ELSE "none"
             told == [cleared EXCEPT
                        !.notes = IF cb = "none" THEN @
                                  ELSE Append(@, Note(cleared, cb, c, Null, Null)),
                        !.calls[c].invalidations = @ + 1]
         IN Complete(told, c, Thrown(st, c), status, from)
    ELSE Complete(st, c, Thrown(st, c), status, from)

Rejected(st, c, status, from) ==
    IF st.calls[c].op = "deviceHeartbeat" /\ st.calls[c].cycle = 1
    THEN HeartbeatFailed(st, c, status, from)
    ELSE IF st.calls[c].op = "getDeviceInfo" /\ status = 401
    THEN LET cleared == ClearTokens(st)
             cb == IF cleared.onDeviceSessionInvalid THEN "onDeviceSessionInvalid"
                   ELSE IF HasWindow(st) THEN "reload" ELSE "none"
             told == [cleared EXCEPT
                        !.notes = IF cb = "none" THEN @
                                  ELSE Append(@, Note(cleared, cb, c, Null, Null)),
                        !.calls[c].invalidations = @ + 1]
         IN Complete(told, c, Thrown(st, c), status, from)
    ELSE Complete(st, c, Thrown(st, c), status, from)

\* Faulty variant: the refresh token of the response is not stored.
StoreTokensAccessOnly(st, c, data) ==
    LET s1 == [st EXCEPT !.token = data] IN
    IF s1.onTokenRefresh
    THEN LET n == [Note(s1, "onTokenRefresh", c, s1.token, s1.refreshToken)
                     EXCEPT !.exp = data]
         IN [s1 EXCEPT !.notes = Append(@, n)]
    ELSE s1

\* register / login: store the tokens of the response, then notify.  The
\* response the server numbered n carries token n, refresh_token n and
\* expires_at n.
StoreTokens(st, c, data) ==
    LET s0 == [st EXCEPT !.token = data, !.refreshToken = data]
        s1 == SaveRefreshed(s0)
    IN
    IF s1.onTokenRefresh
    THEN LET n == [Note(s1, "onTokenRefresh", c, s1.token, s1.refreshToken)
                     EXCEPT !.exp = data]
         IN [s1 EXCEPT !.notes = Append(@, n)]
    ELSE s1

\* Faulty variant: logout forgets the device token as well.
ResolvedLogoutClearingDevice(st, c, data) ==
    LET op == st.calls[c].op
        s1 == CASE op \in {"login", "register"} -> StoreTokens(st, c, data)
                [] op = "logout" -> ClearTokens(st)
                [] op = "registerDevice" ->
                     IF data # Null THEN [st EXCEPT !.deviceToken = data] ELSE st
                [] OTHER -> st
    IN Complete(s1, c, "ok", NoStatus, 0)

\* What a public operation does when its _request promise resolves; data is
\* the token pair a login or register response carries, or the device_token
\* of a registerDevice response (Null: it carries none).
Resolved(st, c, data) ==
    LET op == st.calls[c].op
        s1 == CASE op \in {"login", "register"} -> SaveTokens(StoreTokens(st, c, data))
                [] op = "logout" -> [st EXCEPT !.token = Null, !.refreshToken = Null]
                [] op = "registerDevice" ->
                     IF data # Null THEN [st EXCEPT !.deviceToken = data] ELSE st
                [] OTHER -> st
    IN Complete(s1, c, "ok", NoStatus, 0)

\* setTokens(token, refreshToken)
SetTokens(st, t, r) == [st EXCEPT !.token = t, !.refreshToken = r]

\* setDeviceToken(deviceToken)
SetDeviceToken(st, d) == [st EXCEPT !.deviceToken = d]

\* ------------------------------------------------------ _refreshAccessToken
\* The refresh operations whose /auth/refresh request awaits its response.
InFlight(rs) == {i \in DOMAIN rs : rs[i].state = "pending"}

\* The refresh record _refreshAccessToken creates when it starts a refresh
\* for call c: the request sent (no Authorization, the held refresh token as
\* refresh_token), the tokens held at that moment and the waiting calls.
NewRefresh(st, c) ==
    [state |-> "pending",
     opts |-> RefreshOptions,
     auth |-> Authorization(RefreshOptions, st),
     body |-> st.refreshToken,
     tokenAtStart |-> st.token,
     refreshTokenAtStart |-> st.refreshToken,
     starter |-> c,
     waiters |-> <<c>>]

\* Faulty variant: isRefreshing is not consulted, every caller starts a refresh.
RefreshAccessTokenUnguarded(st, c) ==
    LET id == Len(st.refreshes) + 1 IN
    [st EXCEPT !.isRefreshing = TRUE,
               !.refreshPromise = id,
               !.refreshes = Append(@, NewRefresh(st, c)),
               !.calls[c].pc = "waiting",
               !.calls[c].entered = @ + 1,
               !.calls[c].joined = id]

\* Faulty variant: a caller that finds a refresh in flight notes it and
\* re-issues its request without awaiting it.
RefreshAccessTokenJoinerNotWaiting(st, c) ==
    IF st.isRefreshing
    THEN Send([st EXCEPT !.calls[c].entered = @ + 1,
                         !.calls[c].joined = st.refreshPromise], c,
              RetryOptions(st.calls[c].opts))
    ELSE LET id == Len(st.refreshes) + 1 IN
         [st EXCEPT !.isRefreshing = TRUE,
                    !.refreshPromise = id,
                    !.refreshes = Append(@, NewRefresh(st, c)),
                    !.calls[c].pc = "waiting",
                    !.calls[c].entered = @ + 1,
                    !.calls[c].joined = id]

\* `await this._refreshAccessToken()` in the 401 branch of call c's _request.
\* With isRefreshing set the caller is handed this.refreshPromise and sends
\* nothing; awaiting a null handle resumes the caller at once.  Otherwise the
\* flag is set, the refresh request is sent and its promise is stored.
RefreshAccessToken(st, c) ==
    IF st.isRefreshing
    THEN IF st.refreshPromise = Null
         THEN Send([st EXCEPT !.calls[c].entered = @ + 1], c,
                   RetryOptions(st.calls[c].opts))
         ELSE [st EXCEPT !.calls[c].pc = "waiting",
                         !.calls[c].entered = @ + 1,
                         !.calls[c].joined = st.refreshPromise,
                         !.refreshes[st.refreshPromise].waiters = Append(@, c)]
    ELSE LET id == Len(st.refreshes) + 1 IN
         [st EXCEPT !.isRefreshing = TRUE,
                    !.refreshPromise = id,
                    !.refreshes = Append(@, NewRefresh(st, c)),
                    !.calls[c].pc = "waiting",
                    !.calls[c].entered = @ + 1,
                    !.calls[c].joined = id]

\* A settled refresh operation keeps nothing: what it was and how it ended
\* is in `settled`, with the credentials held just before its response was
\* handled and just after its finally block.
SettledRefresh ==
    [state |-> "settled", opts |-> RefreshOptions, auth |-> NoAuth, body |-> Null,
     tokenAtStart |-> Null, refreshTokenAtStart |-> Null, starter |-> 0,
     waiters |-> <<>>]

Settle(st, id, outcome, data, status) ==
    [st EXCEPT !.settled = Append(@,
                   [id |-> id, rec |-> st.refreshes[id], outcome |-> outcome,
                    data |-> data, errStatus |-> status,
                    before |-> <<token, refreshToken>>,
                    after |-> <<st.token, st.refreshToken>>,
                    flag |-> st.isRefreshing, promise |-> st.refreshPromise]),
               !.refreshes[id] = SettledRefresh]

\* Faulty variant: the finally block clears the flag and keeps the promise.
FinallyKeepingPromise(st) == [st EXCEPT !.isRefreshing = FALSE]

\* Faulty variant: the finally block forgets the flag.
FinallyKeepingFlag(st) == [st EXCEPT !.refreshPromise = Null]

\* The finally block of the refresh operation.
Finally(st) == [st EXCEPT !.isRefreshing = FALSE, !.refreshPromise = Null]

\* Faulty variant: only the call that started the refresh is resumed.
ResumeAllStarterOnly(st, ws) ==
    IF ws = <<>> THEN st
    ELSE Send(st, Head(ws), RetryOptions(st.calls[Head(ws)].opts))

\* The calls awaiting a fulfilled refresh promise resume in order: each
\* re-issues its request with skipTokenRefresh set.
RECURSIVE ResumeAll(_, _)
ResumeAll(st, ws) ==
    IF ws = <<>> THEN st
    ELSE ResumeAll(Send(st, Head(ws), RetryOptions(st.calls[Head(ws)].opts)), Tail(ws))

\* The calls awaiting a rejected refresh promise resume in order: the error
\* lands in the catch block of each call's _request and is thrown on.
RECURSIVE RejectAll(_, _, _, _)
RejectAll(st, ws, status, id) ==
    IF ws = <<>> THEN st
    ELSE RejectAll(Rejected(CatchAuthError(st, Head(ws), status), Head(ws), status, id),
                   Tail(ws), status, id)

\* Faulty variant: the waiting calls are resumed before the new tokens are stored.
RefreshFulfilledStoringLate(st, id, data) ==
    LET s1 == ResumeAll(st, st.refreshes[id].waiters)
        s2 == [s1 EXCEPT !.token = data, !.refreshToken = data]
        s3 == Finally(s2)
    IN Settle(s3, id, "ok", data, NoStatus)

\* Faulty variant: a successful refresh stores the new access token and keeps
\* the refresh token it has just exchanged.
RefreshFulfilledKeepingRefreshToken(st, id, data) ==
    LET s1 == [st EXCEPT !.token = data]
        s2 == IF s1.onTokenRefresh
              THEN LET n == [Note(s1, "onTokenRefresh", 0, s1.token, s1.refreshToken)
                               EXCEPT !.exp = data]
                   IN [s1 EXCEPT !.notes = Append(@, n)]
              ELSE s1
        s3 == Finally(s2)
        s4 == Settle(s3, id, "ok", data, NoStatus)
    IN ResumeAll(s4, st.refreshes[id].waiters)

\* Faulty variant: a successful refresh does not notify.
RefreshFulfilledSilent(st, id, data) ==
    LET s1 == [st EXCEPT !.token = data, !.refreshToken = data]
        s3 == Finally(s1)
        s4 == Settle(s3, id, "ok", data, NoStatus)
    IN ResumeAll(s4, st.refreshes[id].waiters)

\* The refresh request of operation id was answered 2xx with the pair data.
RefreshFulfilled(st, id, data) ==
    LET s0 == [st EXCEPT !.token = data, !.refreshToken = data]
        s1 == SaveRefreshed(s0)
        s2 == IF s1.onTokenRefresh
              THEN LET n == [Note(s1, "onTokenRefresh", 0, s1.token, s1.refreshToken)
                               EXCEPT !.exp = data]
                   IN [s1 EXCEPT !.notes = Append(@, n)]
              ELSE s1
        s3 == Finally(s2)
        s4 == Settle(s3, id, "ok", data, NoStatus)
    IN ResumeAll(s4, st.refreshes[id].waiters)

\* Faulty variant: a failed refresh logs the user out.
RefreshRejectedClearing(st, id, status) ==
    LET s1 == CatchAuthError(st, 0, status)
        s2 == Finally([s1 EXCEPT !.token = Null, !.refreshToken = Null])
        s3 == Settle(s2, id, "failed", Null, status)
    IN RejectAll(s3, st.refreshes[id].waiters, status, id)

\* Faulty variant: the failure of the refresh is swallowed and the waiting calls are
\* re-issued all the same.
RefreshRejectedRetrying(st, id, status) ==
    LET s1 == CatchAuthError(st, 0, status)
        s2 == Finally(s1)
        s3 == Settle(s2, id, "failed", Null, status)
    IN ResumeAll(s3, st.refreshes[id].waiters)

\* The refresh request of operation id failed with the given status.  The
\* request went through _request like any other: were it handed to the refresh
\* coordinator, the operation would await its own promise and never settle.
RefreshRejected(st, id, status) ==
    IF NeedsRefresh(status, st.refreshes[id].opts, st)
    THEN [st EXCEPT !.refreshes[id].state = "stuck"]
    ELSE LET s1 == CatchAuthError(st, 0, status)
             s2 == Finally(s1)
             s3 == Settle(s2, id, "failed", Null, status)
         IN RejectAll(s3, st.refreshes[id].waiters, status, id)

\* The non-2xx response of call c's request has arrived with a status and a
\* decoded body: the call goes through the refresh coordinator, or the
\* classified error is thrown through the catch block to the operation.
ResponseError(st, c, status, body) ==
    IF NeedsRefresh(status, st.calls[c].opts, st)
    THEN RefreshAccessToken(st, c)
    ELSE LET s1 == [st EXCEPT !.calls[c].decoded = body,
                              !.calls[c].value = ClassifiedError(status, body)]
         IN Rejected(CatchAuthError(s1, c, status), c, status, 0)

\* The response of call c's request has arrived with a status.
Response(st, c, status) ==
    IF status \in OkStatus
    THEN IF st.calls[c].op \in {"login", "register"}
         THEN Resolved([st EXCEPT !.issued = @ + 1], c, st.issued + 1)
         ELSE Resolved(st, c, Null)
    ELSE ResponseError(st, c, status, StandardError)

\* The 2xx response of call c's request has arrived with a decoded body: the
\* _request promise resolves with the unwrapped body.
ResponseOk(st, c, body) ==
    Resolved([st EXCEPT !.calls[c].decoded = body,
                        !.calls[c].value = Unwrap(body)], c, Null)

\* ------------------------------------------------------------------ actions
\* new WelcomeSignClient(options): any of the three tokens may be given; the
\* application gives onTokenRefresh and onAuthError together or not at all,
\* and onDeviceSessionInvalid or not.  The client runs in a page that holds
\* nothing of it, and no heartbeat timer is started.
Init ==
    /\ token \in {Null, 1}
    /\ refreshToken \in {Null, 1}
    /\ deviceToken \in {Null, 1}
    /\ isRefreshing = FALSE
    /\ refreshPromise = Null
    /\ onTokenRefresh \in BOOLEAN
    /\ onAuthError = onTokenRefresh
    /\ onDeviceSessionInvalid \in BOOLEAN
    /\ calls = [c \in Calls |-> IdleCall]
    /\ refreshes = <<>>
    /\ issued = 1
    /\ notes = <<>>
    /\ finished = <<>>
    /\ settled = <<>>
    /\ stores = EmptyPage
    /\ timer = "unset"
    /\ persist = FALSE
    /\ util = NoUtil

\* The application calls a public operation; slots are used in order.
Call(c, op) ==
    /\ calls[c].pc = "idle"
    /\ \A d \in Calls : d < c => calls[d].pc # "idle"
    /\ Install(Send([St EXCEPT !.calls[c].op = op], c, Options(op)))

\* The server answers the request of call c.
Respond(c, status) ==
    /\ calls[c].pc = "sent"
    /\ Install(Response(St, c, status))

\* fetch rejects, or the body of the response is not JSON, or it is the
\* JSON null, whose fields cannot be read.
TransportFailure(c) ==
    /\ calls[c].pc = "sent"
    /\ Install(Rejected(CatchAuthError(St, c, NoStatus), c, NoStatus, 0))

\* The server answers a refresh request with a new token pair.
RefreshRespondOk(id) ==
    /\ id \in InFlight(refreshes)
    /\ Install(RefreshFulfilled([St EXCEPT !.issued = @ + 1], id, issued + 1))

\* The server answers a refresh request with an error status.
RefreshRespondError(id, status) ==
    /\ id \in InFlight(refreshes)
    /\ Install(RefreshRejected(St, id, status))

\* The refresh request fails in transport or decoding.
RefreshTransportFailure(id) ==
    /\ id \in InFlight(refreshes)
    /\ Install(RefreshRejected(St, id, NoStatus))

Next ==
    \/ \E c \in Calls, op \in Ops : Call(c, op)
    \/ \E c \in Calls, status \in OkStatus \cup ErrStatus : Respond(c, status)
    \/ \E c \in Calls : TransportFailure(c)
    \/ \E id \in 1..MaxCalls : RefreshRespondOk(id)
    \/ \E id \in 1..MaxCalls, status \in ErrStatus : RefreshRespondError(id, status)
    \/ \E id \in 1..MaxCalls : RefreshTransportFailure(id)

Spec == Init /\ [][Next]_vars

\* The network answers a refresh request in flight, with a response or a
\* failure.  The steps of RefreshRespondOk, RefreshRespondError and
\* RefreshTransportFailure are exactly the steps of Next that do this to
\* `refreshes`, and one of them is enabled exactly when a request is in flight.
RefreshAnswered ==
    \E id \in InFlight(refreshes) :
        refreshes' = [refreshes EXCEPT ![id] = SettledRefresh]

\* A client constructed with all three tokens and all three callbacks.
FullInit ==
    /\ Init
    /\ token = 1 /\ refreshToken = 1 /\ deviceToken = 1
    /\ onTokenRefresh /\ onDeviceSessionInvalid

FairSpec == FullInit /\ [][Next]_vars /\ WF_refreshes(RefreshAnswered)

\* The network answers the request of call c with a response or a failure
\* that completes the call.  The steps of Respond and TransportFailure that
\* complete call c are exactly the steps of Next that do this to `calls`, and
\* one of them is enabled exactly when the request of c is in flight.
Answered(c) ==
    /\ calls[c].pc = "sent"
    /\ calls' = [calls EXCEPT ![c] = DoneCall]

\* Every request in flight is eventually answered.
LiveSpec ==
    /\ FullInit /\ [][Next]_vars
    /\ WF_refreshes(RefreshAnswered)
    /\ \A c \in Calls : WF_calls(Answered(c))

\* ------------------------------------------- _request with any descriptor
\* A resource operation hands _request a descriptor and returns its promise.
Request(c, o) ==
    /\ calls[c].pc = "idle"
    /\ \A d \in Calls : d < c => calls[d].pc # "idle"
    /\ Install(Send([St EXCEPT !.calls[c].op = "request"], c, o))

\* The server answers the request of call c with a 2xx status and a body.
RespondOk(c, body) ==
    /\ calls[c].pc = "sent"
    /\ Install(ResponseOk(St, c, body))

\* A client constructed with any of the three tokens, with onTokenRefresh and
\* onAuthError.
RequestInit ==
    /\ Init
    /\ onAuthError /\ ~onDeviceSessionInvalid

RequestNext ==
    \/ \E c \in Calls, o \in Descriptors : Request(c, o)
    \/ \E c \in Calls, body \in Bodies : RespondOk(c, body)
    \/ \E c \in Calls, status \in ErrStatus : Respond(c, status)
    \/ \E c \in Calls : TransportFailure(c)
    \/ \E id \in 1..MaxCalls : RefreshRespondOk(id)
    \/ \E id \in 1..MaxCalls, status \in ErrStatus : RefreshRespondError(id, status)
    \/ \E id \in 1..MaxCalls : RefreshTransportFailure(id)

RequestSpec == RequestInit /\ [][RequestNext]_vars

\* ------------------------------------------------- error response bodies
\* The server answers the request of call c with an error status and a body.
RespondError(c, status, body) ==
    /\ calls[c].pc = "sent"
    /\ Install(ResponseError(St, c, status, body))

ErrorNext ==
    \/ \E c \in Calls, o \in Descriptors : Request(c, o)
    \/ \E c \in Calls, status \in ErrStatus, body \in ErrorBodies :
          RespondError(c, status, body)
    \/ \E id \in 1..MaxCalls : RefreshRespondOk(id)
    \/ \E id \in 1..MaxCalls, status \in ErrStatus : RefreshRespondError(id, status)

ErrorSpec == RequestInit /\ [][ErrorNext]_vars

\* ------------------------------------------------------ the device client
\* startDeviceHeartbeat(): setInterval.
StartDeviceHeartbeat ==
    /\ timer = "unset"
    /\ Install([St EXCEPT !.timer = "active"])

\* stopDeviceHeartbeat(intervalId): clearInterval.
StopDeviceHeartbeat ==
    /\ timer = "active"
    /\ Install([St EXCEPT !.timer = "cleared"])

\* Faulty variant: the callback keeps running after clearInterval.
TickUnstoppable(c) ==
    /\ timer # "unset"
    /\ calls[c].pc = "idle"
    /\ \A d \in Calls : d < c => calls[d].pc # "idle"
    /\ Install(Send([St EXCEPT !.calls[c].op = "deviceHeartbeat",
                               !.calls[c].cycle = 1], c, Options("deviceHeartbeat")))

\* The interval elapses: the timer callback runs up to `await
\* this.deviceHeartbeat()`.
Tick(c) ==
    /\ timer = "active"
    /\ calls[c].pc = "idle"
    /\ \A d \in Calls : d < c => calls[d].pc # "idle"
    /\ Install(Send([St EXCEPT !.calls[c].op = "deviceHeartbeat",
                               !.calls[c].cycle = 1], c, Options("deviceHeartbeat")))

\* The application calls getDeviceInfo(); it does so before it starts the
\* heartbeat.
GetDeviceInfo(c) ==
    /\ timer = "unset"
    /\ Call(c, "getDeviceInfo")

\* A device client: constructed with a device token, with or without a
\* refresh token and callbacks, in a page that holds the device's data or,
\* with a storage option, in an environment without a page.
DeviceInit ==
    /\ token = Null
    /\ refreshToken \in {Null, 1}
    /\ deviceToken = 1
    /\ isRefreshing = FALSE
    /\ refreshPromise = Null
    /\ onTokenRefresh \in BOOLEAN
    /\ onAuthError = onTokenRefresh
    /\ onDeviceSessionInvalid \in BOOLEAN
    /\ calls = [c \in Calls |-> IdleCall]
    /\ refreshes = <<>>
    /\ issued = 1
    /\ notes = <<>>
    /\ finished = <<>>
    /\ settled = <<>>
    /\ stores \in {DevicePage, NoPage}
    /\ timer = "unset"
    /\ persist = FALSE
    /\ util = NoUtil

DeviceNext ==
    \/ StartDeviceHeartbeat
    \/ StopDeviceHeartbeat
    \/ \E c \in Calls : Tick(c)
    \/ \E c \in Calls : GetDeviceInfo(c)
    \/ \E c \in Calls, status \in OkStatus \cup ErrStatus : Respond(c, status)
    \/ \E id \in 1..MaxCalls : RefreshRespondOk(id)
    \/ \E id \in 1..MaxCalls, status \in ErrStatus : RefreshRespondError(id, status)

DeviceSpec == DeviceInit /\ [][DeviceNext]_vars

\* The device client in a page, with its callbacks registered, where requests
\* may also fail in transport.
HeartbeatInit ==
    /\ DeviceInit
    /\ onTokenRefresh /\ onDeviceSessionInvalid
    /\ stores = DevicePage

HeartbeatNext ==
    \/ DeviceNext
    \/ \E c \in Calls : TransportFailure(c)
    \/ \E id \in 1..MaxCalls : RefreshTransportFailure(id)

HeartbeatSpec == HeartbeatInit /\ [][HeartbeatNext]_vars

\* ------------------------------------------------ the limit utilities
\* The usages and the limits the utilities are applied to.
MaxUsage == 4
MaxLimit == 4
Limits == {NullValue} \cup {Number(n) : n \in -1..MaxLimit}

\* A client and a usage and a limit of a subscription.
LimitInit ==
    /\ token = Null /\ refreshToken = Null /\ deviceToken = Null
    /\ isRefreshing = FALSE
    /\ refreshPromise = Null
    /\ onTokenRefresh = FALSE /\ onAuthError = FALSE /\ onDeviceSessionInvalid = FALSE
    /\ calls = [c \in Calls |-> IdleCall]
    /\ refreshes = <<>>
    /\ issued = 1
    /\ notes = <<>>
    /\ finished = <<>>
    /\ settled = <<>>
    /\ stores = EmptyPage
    /\ timer = "unset"
    /\ persist = FALSE
    /\ util \in [usage : 0..MaxUsage, limit : Limits, within : {Undefined},
                 remaining : {Undefined}]

\* The application calls isWithinLimit(usage, limit).
IsWithinLimitCall ==
    /\ util' = [util EXCEPT !.within =
                    [json |-> "boolean", b |-> isWithinLimit(util.usage, util.limit)]]
    /\ UNCHANGED <<token, refreshToken, deviceToken, isRefreshing, refreshPromise,
                   onTokenRefresh, onAuthError, onDeviceSessionInvalid, calls,
                   refreshes, issued, notes, finished, settled, stores, timer, persist>>

\* The application calls getRemainingCapacity(usage, limit).
GetRemainingCapacityCall ==
    /\ util' = [util EXCEPT !.remaining = getRemainingCapacity(util.usage, util.limit)]
    /\ UNCHANGED <<token, refreshToken, deviceToken, isRefreshing, refreshPromise,
                   onTokenRefresh, onAuthError, onDeviceSessionInvalid, calls,
                   refreshes, issued, notes, finished, settled, stores, timer, persist>>

LimitNext == IsWithinLimitCall \/ GetRemainingCapacityCall

LimitSpec == LimitInit /\ [][LimitNext]_vars

\* ------------------------------------------ the credential operations
\* What the storage option of createClient holds when the client is made:
\* nothing, or what an earlier client saved.
SavedItems == {<<>>, <<1, 1, Null>>, <<1, 1, 1>>}

\* createClient({storage, ...}): the client starts with the tokens loaded
\* from the storage, which is also the core's this.storage; no page.
PersistInit ==
    /\ persist = TRUE
    /\ \E item \in SavedItems :
          /\ stores = [b \in Backends |->
                         IF b = "storage"
                         THEN [present |-> TRUE, item |-> item, deviceKeys |-> {}]
                         ELSE NoBackend]
          /\ token = LoadTokens(item)[1]
          /\ refreshToken = LoadTokens(item)[2]
          /\ deviceToken = LoadTokens(item)[3]
    /\ isRefreshing = FALSE
    /\ refreshPromise = Null
    /\ onTokenRefresh = FALSE
    /\ onAuthError = FALSE
    /\ onDeviceSessionInvalid = FALSE
    /\ calls = [c \in Calls |-> IdleCall]
    /\ refreshes = <<>>
    /\ issued = 1
    /\ notes = <<>>
    /\ finished = <<>>
    /\ settled = <<>>
    /\ timer = "unset"
    /\ util = NoUtil

\* The operations that send a request.
CredOps == {"getSessions", "login", "register", "logout", "registerDevice",
            "getDeviceInfo"}

\* The tokens the application itself may hand to setTokens and
\* setDeviceToken; the server's are numbered from 2.
OwnTokens == {Null, 1}

\* The application calls setTokens, which returns at once.
SetTokensCall(c, t, r) ==
    /\ calls[c].pc = "idle"
    /\ \A d \in Calls : d < c => calls[d].pc # "idle"
    /\ Install(Complete(SaveTokens(SetTokens([St EXCEPT !.calls[c].op = "setTokens"],
                                             t, r)),
                        c, "ok", NoStatus, 0))

\* The application calls setDeviceToken.
SetDeviceTokenCall(c, d) ==
    /\ calls[c].pc = "idle"
    /\ \A e \in Calls : e < c => calls[e].pc # "idle"
    /\ Install(Complete(SaveTokens(SetDeviceToken(
                            [St EXCEPT !.calls[c].op = "setDeviceToken"], d)),
                        c, "ok", NoStatus, 0))

\* The application calls clearTokens.
ClearTokensCall(c) ==
    /\ calls[c].pc = "idle"
    /\ \A d \in Calls : d < c => calls[d].pc # "idle"
    /\ Install(Complete(ClearTokens([St EXCEPT !.calls[c].op = "clearTokens"]),
                        c, "ok", NoStatus, 0))

\* The server answers a registerDevice request with a device_token (Respond
\* with 200 is the answer that carries none).
RespondDeviceToken(c) ==
    /\ calls[c].pc = "sent"
    /\ calls[c].op = "registerDevice"
    /\ Install(Resolved([St EXCEPT !.issued = @ + 1], c, issued + 1))

\* A client constructed with a token pair and both callbacks, with or without
\* a device token.
CredInit ==
    /\ Init
    /\ token = 1 /\ refreshToken = 1
    /\ onTokenRefresh /\ onDeviceSessionInvalid

CredNext ==
    \/ \E c \in Calls, op \in CredOps : Call(c, op)
    \/ \E c \in Calls, t \in OwnTokens, r \in OwnTokens : SetTokensCall(c, t, r)
    \/ \E c \in Calls, d \in OwnTokens : SetDeviceTokenCall(c, d)
    \/ \E c \in Calls : ClearTokensCall(c)
    \/ \E c \in Calls, status \in OkStatus \cup ErrStatus : Respond(c, status)
    \/ \E c \in Calls : RespondDeviceToken(c)
    \/ \E c \in Calls : TransportFailure(c)
    \/ \E id \in 1..MaxCalls : RefreshRespondOk(id)
    \/ \E id \in 1..MaxCalls, status \in ErrStatus : RefreshRespondError(id, status)
    \/ \E id \in 1..MaxCalls : RefreshTransportFailure(id)

CredSpec == CredInit /\ [][CredNext]_vars

PersistSpec == PersistInit /\ [][CredNext]_vars

\* ------------------------------------------------------------------- claims
Range(q) == {q[i] : i \in DOMAIN q}

\* The calls that have entered the refresh coordinator and not yet completed.
Entered == {c \in Calls : calls[c].entered > 0}

\* C1: at most one POST /auth/refresh request is in flight at any instant, and
\* a call that entered _refreshAccessToken while isRefreshing was set sent no
\* refresh request: it awaits the pending refreshPromise, the one whose
\* request is in flight, together with the call that started it.
C1_SingleFlight ==
    /\ Cardinality(InFlight(refreshes)) <= 1
    /\ Len(refreshes) <= Cardinality({c \in Calls : calls[c].pc # "idle"})
    /\ \A c \in Calls :
          calls[c].pc = "waiting" =>
             /\ isRefreshing
             /\ calls[c].joined = refreshPromise
             /\ calls[c].joined \in InFlight(refreshes)
             /\ c \in Range(refreshes[calls[c].joined].waiters)
    /\ \A id \in InFlight(refreshes) :
          /\ refreshes[id].starter = Head(refreshes[id].waiters)
          /\ \A i, j \in DOMAIN refreshes[id].waiters :
                i # j => refreshes[id].waiters[i] # refreshes[id].waiters[j]

\* C1 witness: two calls await the same pending refresh, the second having
\* joined it.
C1_Witness ==
    \E id \in InFlight(refreshes) : Len(refreshes[id].waiters) = 2

\* C2 (as claimed): calls whose first request carried the same access token
\* and was answered 401 with a refresh token held all went through one and the
\* same refresh, whatever the order of the responses.
C2_OneRefreshPerStaleToken ==
    \A a, b \in Entered :
        (/\ calls[a].firstAuth.kind = "access"
         /\ calls[a].firstAuth = calls[b].firstAuth)
        => calls[a].joined = calls[b].joined

\* C3: when a refresh succeeds, every call awaiting it whose first request
\* carried the user access token is re-issued at once with the access token
\* that refresh returned, which is not the token its first request carried.
C3_RetryUsesNewToken ==
    \A s \in Range(settled) :
        s.outcome = "ok" =>
            \A w \in Range(s.rec.waiters) :
                (calls[w].firstAuth.kind = "access" /\ ~calls[w].opts.useDeviceToken)
                => /\ calls[w].pc = "sent"
                   /\ calls[w].sends = 2
                   /\ calls[w].auth = [kind |-> "access", val |-> s.data]
                   /\ calls[w].auth # calls[w].firstAuth

\* C3 witness: a refresh has just succeeded and a call that was sent with the
\* access token is being retried.
C3_Witness ==
    \E s \in Range(settled) :
        /\ s.outcome = "ok"
        /\ \E w \in Range(s.rec.waiters) :
              calls[w].firstAuth.kind = "access" /\ calls[w].sends = 2

\* What C4 says of one call record.
AtMostOneRetry(r) ==
    /\ r.sends <= 2
    /\ r.entered <= 1
    /\ r.pc = "waiting" => r.sends = 1 /\ r.entered = 1
    /\ r.sends = 2 => /\ r.entered = 1
                      /\ r.opts = [r.firstOpts EXCEPT !.skipTokenRefresh = TRUE]
                      /\ ~r.firstOpts.skipTokenRefresh

\* C4: a call sends its request at most twice and enters the refresh
\* coordinator at most once; the second request is the first one with
\* skipTokenRefresh set, and a call whose second request was answered is
\* complete.
C4_AtMostOneRetry ==
    /\ \A c \in Calls : AtMostOneRetry(calls[c])
    /\ \A f \in Range(finished) : AtMostOneRetry(f.rec)

\* C4 witness: a call has just failed on a 401 to its retry, with a refresh
\* token still held.
C4_Witness ==
    \E f \in Range(finished) :
        /\ f.rec.sends = 2 /\ f.errStatus = 401 /\ f.errFrom = 0
        /\ f.before[2] # Null

\* C5: a request sent with skipTokenRefresh set (a retry, or the refresh
\* request itself) is never handed to the refresh coordinator and never
\* re-issued: the step that handles its response, whatever the status,
\* completes the call (settles the refresh) and starts no refresh.
C5_SkipNeverRefreshes ==
    [][/\ \A c \in Calls :
            (calls[c].pc = "sent" /\ calls[c].opts.skipTokenRefresh)
            => \/ calls'[c] = calls[c]
               \/ /\ calls'[c] = DoneCall
                  /\ Len(refreshes') = Len(refreshes)
       /\ \A id \in InFlight(refreshes) :
            refreshes[id].opts.skipTokenRefresh
            => \/ refreshes'[id].state = "pending"
               \/ /\ refreshes'[id] = SettledRefresh
                  /\ Len(refreshes') = Len(refreshes)]_vars

\* C5 witness: a request with skipTokenRefresh set has just been answered 401
\* while a refresh token was held.
C5_Witness == C4_Witness /\ Len(refreshes) = 1

C7_FailurePropagates ==
    \A s \in Range(settled) :
        s.outcome = "failed" =>
            \A w \in Range(s.rec.waiters) :
                /\ calls[w] = DoneCall
                /\ \E f \in Range(finished) :
                      /\ f.call = w
                      /\ f.result = "error"
                      /\ f.errFrom = s.id
                      /\ f.errStatus = s.errStatus
                      /\ f.rec.sends = 1

\* C7 witness: a refresh awaited by two calls has just failed.
C7_Witness ==
    \E s \in Range(settled) : s.outcome = "failed" /\ Len(s.rec.waiters) = 2

\* The safety half of C8, as a predicate of one state.
FlagClearWhenSettled ==
    /\ \A s \in Range(settled) : ~s.flag /\ s.promise = Null
    /\ InFlight(refreshes) = {} => ~isRefreshing /\ refreshPromise = Null
    /\ \A c \in Calls : calls[c].pc = "waiting"
                          => calls[c].joined \in InFlight(refreshes)

\* C8: a settled refresh leaves isRefreshing false and refreshPromise null
\* (so both are clear whenever no refresh request is in flight, and a call
\* that waits always waits on a refresh still in flight, never on a finished
\* one); and if refresh requests are eventually answered, a set flag is
\* eventually cleared.
C8_FlagCleared ==
    /\ FlagClearWhenSettled
    /\ [][FlagClearWhenSettled']_vars
    /\ (isRefreshing ~> ~isRefreshing)

\* C8 witness: after the first refresh has settled, a later 401 has started a
\* second refresh request.
C8_Witness ==
    /\ Len(refreshes) = 2
    /\ refreshes[1] = SettledRefresh
    /\ refreshes[2].state = "pending"
    /\ isRefreshing

\* The callbacks the last step invoked for call c.
NotesOf(c) == {i \in DOMAIN notes : notes[i].call = c}

\* C9 (as claimed): every callback invoked for a getDeviceInfo call that
\* failed with 401 is invoked with all three tokens already null.
C9_ClearedBeforeAnyCallback ==
    \A f \in Range(finished) :
        (f.rec.op = "getDeviceInfo" /\ f.errStatus = 401)
        => \A i \in NotesOf(f.call) :
              notes[i].cb # "reload" => notes[i].creds = <<Null, Null, Null>>

\* C10: a getDeviceInfo call whose request is answered 401 while only a
\* device token is held ends with all three tokens null, with
\* onDeviceSessionInvalid invoked exactly once (when none is registered, the
\* page reloaded exactly once instead), without having entered the refresh
\* coordinator or started a refresh, and with that 401 error raised to the
\* caller.
C10_DeviceOnly401 ==
    \A f \in Range(finished) :
        (/\ f.rec.op = "getDeviceInfo"
         /\ f.errStatus = 401 /\ f.errFrom = 0 /\ f.rec.sends = 1
         /\ f.before[1] = Null /\ f.before[2] = Null /\ f.before[3] # Null)
        => /\ f.creds = <<Null, Null, Null>>
           /\ <<token, refreshToken, deviceToken>> = <<Null, Null, Null>>
           /\ f.rec.invalidations = 1
           /\ Cardinality({i \in NotesOf(f.call) :
                             notes[i].cb = "onDeviceSessionInvalid"})
                = (IF onDeviceSessionInvalid THEN 1 ELSE 0)
           /\ Cardinality({i \in NotesOf(f.call) : notes[i].cb = "reload"})
                = (IF onDeviceSessionInvalid THEN 0 ELSE 1)
           /\ f.rec.entered = 0 /\ f.rec.joined = 0
           /\ \A id \in DOMAIN refreshes : refreshes[id].starter # f.call
           /\ f.result = "error"

\* C10 witness: such a call has just failed, with the callback registered.
C10_Witness ==
    \E f \in Range(finished) :
        /\ f.rec.op = "getDeviceInfo" /\ f.errStatus = 401
        /\ f.errFrom = 0 /\ f.rec.sends = 1
        /\ f.before = <<Null, Null, 1>>
        /\ f.rec.firstAuth = [kind |-> "device", val |-> 1]
        /\ onDeviceSessionInvalid

\* C11 (as claimed): a getDeviceInfo call whose request carried the device
\* token is never made to wait on a refresh and never sends /device/info a
\* second time, whatever other tokens the client holds: its 401 is terminal.
C11_Device401Terminal ==
    \A c \in Calls :
        (calls[c].op = "getDeviceInfo" /\ calls[c].firstAuth.kind = "device")
        => calls[c].entered = 0 /\ calls[c].sends <= 1

\* The calls whose request the step sends.
SentNow == {c \in Calls : calls'[c].sends = calls[c].sends + 1}

\* C12: the bearer credential of every request _request sends is the device
\* token if the descriptor sets useDeviceToken and a device token is held;
\* otherwise the access token if auth is not false and an access token is
\* held; otherwise none.  In particular a useDeviceToken request sent while
\* no device token is held carries the access token.  The tokens are those
\* held when the request is sent, for every descriptor and token combination.
C12_BearerAttached ==
    [][\A c \in SentNow :
          LET o == calls'[c].opts
              a == calls'[c].auth
          IN /\ (o.useDeviceToken /\ deviceToken' # Null)
                    => a = [kind |-> "device", val |-> deviceToken']
             /\ (~(o.useDeviceToken /\ deviceToken' # Null) /\ o.auth /\ token' # Null)
                    => a = [kind |-> "access", val |-> token']
             /\ (~(o.useDeviceToken /\ deviceToken' # Null) /\ ~(o.auth /\ token' # Null))
                    => a = NoAuth
             /\ (o.useDeviceToken /\ deviceToken' = Null /\ o.auth /\ token' # Null)
                    => a.kind = "access"]_vars

\* C12 witness: a request flagged useDeviceToken is in flight with the access
\* token as its bearer, sent while no device token was held.
C12_Witness ==
    \E c \in Calls :
        /\ calls[c].pc = "sent" /\ calls[c].op = "request"
        /\ calls[c].opts.useDeviceToken /\ calls[c].opts.auth
        /\ deviceToken = Null
        /\ calls[c].auth = [kind |-> "access", val |-> token]

AuthErrorNotes(c) == {i \in NotesOf(c) : notes[i].cb = "onAuthError"}

\* C14: with onAuthError registered, a call that fails on the 401 of its own
\* request (no refresh token was held, the request was sent with
\* skipTokenRefresh, or it was the retry) has onAuthError invoked for it with
\* the error of status 401; a call whose 401 was resolved by a refresh and a
\* successful retry completes without onAuthError ever invoked for it.
C14_AuthErrorOnUnresolved401 ==
    \A f \in Range(finished) :
        /\ (onAuthError /\ f.result = "error" /\ f.errStatus = 401 /\ f.errFrom = 0)
              => /\ f.rec.authErrors >= 1
                 /\ AuthErrorNotes(f.call) # {}
                 /\ \A i \in AuthErrorNotes(f.call) : notes[i].err = 401
        /\ (f.result = "ok" /\ f.rec.sends = 2)
              => /\ f.rec.authErrors = 0
                 /\ AuthErrorNotes(f.call) = {}

\* C14 witness: a retry has just been answered 401 and was reported to
\* onAuthError.
C14_Witness ==
    \E f \in Range(finished) :
        /\ f.result = "error" /\ f.errStatus = 401 /\ f.errFrom = 0
        /\ f.rec.sends = 2 /\ f.rec.entered = 1
        /\ AuthErrorNotes(f.call) # {}

\* C15 (as claimed): with onAuthError registered, every refresh that fails,
\* with whatever status or in transport, has onAuthError invoked in the step
\* that settles it.
C15_AuthErrorOnFailedRefresh ==
    \A s \in Range(settled) :
        (onAuthError /\ s.outcome = "failed")
        => \E i \in DOMAIN notes : notes[i].cb = "onAuthError"

\* The step answers the request of call c with an error status other than
\* 401: the call fails with that status, no refresh is started or joined, no
\* request is sent, onAuthError is not invoked and the tokens are unchanged.
OtherErrorIsFinal(c, status) ==
    Respond(c, status) =>
        /\ \E f \in Range(finished') :
              f.call = c /\ f.result = "error" /\ f.errStatus = status /\ f.errFrom = 0
        /\ Len(finished') = 1
        /\ refreshes' = refreshes
        /\ isRefreshing' = isRefreshing /\ refreshPromise' = refreshPromise
        /\ SentNow = {}
        /\ \A d \in Calls : calls'[d].pc # "waiting" \/ calls[d].pc = "waiting"
        /\ notes' = <<>>
        /\ <<token, refreshToken, deviceToken>>' = <<token, refreshToken, deviceToken>>

\* C16: a response with a non-2xx status other than 401 ends the call in an
\* error of that status without refresh, re-issue, onAuthError or any change
\* of the tokens; and no step of _request changes a token except the step in
\* which a refresh succeeds, which stores the pair of the refresh response.
C16_OnlyRefreshWrites ==
    [][/\ \A c \in Calls, status \in ErrStatus \ {401} : OtherErrorIsFinal(c, status)
       /\ <<token, refreshToken, deviceToken>>' # <<token, refreshToken, deviceToken>>
            => /\ \E s \in Range(settled') :
                     s.outcome = "ok" /\ token' = s.data /\ refreshToken' = s.data
               /\ deviceToken' = deviceToken]_vars

\* C16 witness: a call has just failed with status 500 while a refresh token
\* was held and its request was not marked skipTokenRefresh.
C16_Witness ==
    \E f \in Range(finished) :
        /\ f.result = "error" /\ f.errStatus = 500 /\ f.errFrom = 0
        /\ f.creds[2] # Null /\ ~f.rec.opts.skipTokenRefresh

\* C17: a token issued by the server is only ever held together with the
\* token of the same response: when the access token or the refresh token
\* held is one a login, register or refresh response returned, the other is
\* the one that response returned with it.  Any other pair held is the pair
\* the client was constructed with, one handed to setTokens, or the empty pair
\* left by logout and clearTokens.
C17_PairFromOneResponse ==
    (token \notin OwnTokens \/ refreshToken \notin OwnTokens)
        => token = refreshToken

\* C17 witness: a refresh has just succeeded although the pair held when its
\* response arrived was not the pair held when it started, and the pair held
\* now is the one its response returned.
C17_Witness ==
    \E s \in Range(settled) :
        /\ s.outcome = "ok"
        /\ s.before # <<s.rec.tokenAtStart, s.rec.refreshTokenAtStart>>
        /\ token = s.data /\ refreshToken = s.data

\* C18: a step changes the device token only if it completes a registerDevice
\* call whose response carried a device_token, a setDeviceToken call, a
\* clearTokens call, or a getDeviceInfo call failing with 401 (which calls
\* clearTokens); so login, register, logout, setTokens, every refresh and
\* every other request leave it as it was.
C18_DeviceTokenWriters ==
    [][deviceToken' # deviceToken =>
          \E f \in Range(finished') :
              \/ f.rec.op = "registerDevice" /\ f.result = "ok" /\ deviceToken' \notin OwnTokens
              \/ f.rec.op = "setDeviceToken"
              \/ f.rec.op = "clearTokens" /\ deviceToken' = Null
              \/ f.rec.op = "getDeviceInfo" /\ f.errStatus = 401 /\ deviceToken' = Null]_vars

\* C18 witness: a logout has just completed, and a refresh has succeeded
\* before it, with the device token still held.
C18_Witness ==
    /\ deviceToken = 1
    /\ \E f \in Range(finished) : f.rec.op = "logout" /\ f.result = "ok"
    /\ \E id \in DOMAIN refreshes : refreshes[id] = SettledRefresh
    /\ issued > 1

\* The onTokenRefresh invocations of the last step.
TokenRefreshNotes == {i \in DOMAIN notes : notes[i].cb = "onTokenRefresh"}

\* C19: with onTokenRefresh registered, it is invoked exactly once for each
\* login or register that succeeds and for each refresh that succeeds, after
\* the tokens of the response are stored, with the token and refreshToken
\* then held and the expiry of that response; it is not invoked for a login,
\* register or refresh that fails nor by any other operation.
C19_TokenRefreshNotified ==
    /\ \A f \in Range(finished) :
          Cardinality({i \in TokenRefreshNotes : notes[i].call = f.call})
            = (IF f.rec.op \in {"login", "register"} /\ f.result = "ok" THEN 1 ELSE 0)
    /\ \A s \in Range(settled) :
          Cardinality({i \in TokenRefreshNotes : notes[i].call = 0})
            = (IF s.outcome = "ok" THEN 1 ELSE 0)
    /\ Cardinality(TokenRefreshNotes)
         = Cardinality({i \in DOMAIN finished :
                          finished[i].rec.op \in {"login", "register"}
                          /\ finished[i].result = "ok"})
           + Cardinality({i \in DOMAIN settled : settled[i].outcome = "ok"})
    /\ \A i \in TokenRefreshNotes :
          /\ notes[i].tok = issued /\ notes[i].rt = issued /\ notes[i].exp = issued
          /\ notes[i].creds[1] = notes[i].tok
          /\ notes[i].creds[2] = notes[i].rt

\* C19 witness: a register call has just succeeded and onTokenRefresh was
\* invoked for it with the tokens of its response.
C19_Witness ==
    \E f \in Range(finished) :
        /\ f.rec.op = "register" /\ f.result = "ok"
        /\ \E i \in TokenRefreshNotes :
              notes[i].call = f.call /\ notes[i].tok = token /\ token = issued

C21_ClassifiedError ==
    \A f \in Range(finished) :
        (f.result = "error" /\ f.errFrom = 0)
        => LET b == f.rec.decoded
               e == f.rec.value
           IN /\ e.status = f.errStatus /\ e.status \in ErrStatus
              /\ e.data = b
              /\ b.message # Undefined => Text(e.message) = b.message
              /\ (b.message = Undefined /\ b.error # Undefined)
                    => Text(e.message) = b.error
              /\ (b.message = Undefined /\ b.error = Undefined)
                    => e.message = "API request failed"

\* The step is the failure of call c's request in transport or decoding: the
\* call fails with an error without status, nothing is sent, no refresh is
\* started, no callback is invoked and the tokens are unchanged.
TransportFailureIsFinal(c) ==
    TransportFailure(c) =>
        /\ \E f \in Range(finished') :
              f.call = c /\ f.result = "error" /\ f.errStatus = NoStatus /\ f.errFrom = 0
        /\ Len(finished') = 1
        /\ refreshes' = refreshes
        /\ isRefreshing' = isRefreshing /\ refreshPromise' = refreshPromise
        /\ SentNow = {}
        /\ notes' = <<>>
        /\ <<token, refreshToken, deviceToken>>' = <<token, refreshToken, deviceToken>>

\* The step is the failure of a refresh request in transport or decoding:
\* every call awaiting that refresh fails with the error without status, the
\* refresh request is not sent again and no other refresh is started, nothing
\* is sent, no callback is invoked and the tokens are unchanged.
RefreshTransportFailureIsFinal(id) ==
    RefreshTransportFailure(id) =>
        /\ \A w \in Range(refreshes[id].waiters) :
              \E f \in Range(finished') :
                  f.call = w /\ f.result = "error" /\ f.errStatus = NoStatus /\ f.errFrom = id
        /\ Len(finished') = Len(refreshes[id].waiters)
        /\ refreshes' = [refreshes EXCEPT ![id] = SettledRefresh]
        /\ ~isRefreshing' /\ refreshPromise' = Null
        /\ SentNow = {}
        /\ notes' = <<>>
        /\ <<token, refreshToken, deviceToken>>' = <<token, refreshToken, deviceToken>>

\* C22: a transport failure or non-JSON response on a call's request or on a
\* refresh request is raised to the caller (to every caller awaiting the
\* refresh) as it is: no request is re-issued, no refresh call is made,
\* onAuthError is not invoked and the tokens are unchanged.
C22_TransportFailureSurfaced ==
    [][/\ \A c \in Calls : TransportFailureIsFinal(c)
       /\ \A id \in DOMAIN refreshes : RefreshTransportFailureIsFinal(id)]_vars

\* C22 witness: the retry of a call has just failed in transport while a
\* refresh token was held.
C22_Witness ==
    \E f \in Range(finished) :
        /\ f.result = "error" /\ f.errStatus = NoStatus /\ f.errFrom = 0
        /\ f.rec.sends = 2 /\ refreshToken # Null

\* C23: a call that went through a refresh, as its starter or as a joiner,
\* has its retry in flight only when that refresh is settled; while the
\* refresh is in flight the call waits and has sent one request only; and in
\* the step that settles a successful refresh the tokens of its response are
\* stored and the flag and the handle are cleared when the waiting calls are
\* retried.
C23_RetryAfterRefresh ==
    /\ \A c \in Calls :
          /\ calls[c].sends = 2
                => /\ calls[c].joined \in DOMAIN refreshes
                   /\ refreshes[calls[c].joined].state = "settled"
          /\ calls[c].pc = "waiting"
                => /\ calls[c].sends = 1
                   /\ calls[c].joined \in InFlight(refreshes)
    /\ \A s \in Range(settled) :
          s.outcome = "ok"
          => /\ s.after = <<s.data, s.data>>
             /\ ~s.flag /\ s.promise = Null
             /\ ~isRefreshing /\ refreshPromise = Null
             /\ \A w \in Range(s.rec.waiters) :
                   /\ calls[w].pc = "sent" /\ calls[w].sends = 2
                   /\ calls[w].joined = s.id
                   /\ calls[w].auth = Authorization(calls[w].opts, St)

\* C23 witness: a refresh that two calls awaited has just succeeded and the
\* call that had joined it is being retried.
C23_Witness ==
    \E s \in Range(settled) :
        /\ s.outcome = "ok" /\ Len(s.rec.waiters) = 2
        /\ \E w \in Range(s.rec.waiters) :
              w # s.rec.starter /\ calls[w].sends = 2 /\ calls[w].pc = "sent"

\* The refresh operations the step starts.
StartedNow == {id \in DOMAIN refreshes' : id \notin DOMAIN refreshes}

\* C24: every refresh request is a POST to /auth/refresh without
\* Authorization header whose refresh_token is the refresh token held when
\* the refresh starts, and it is marked skipTokenRefresh: a 401 answer to it
\* settles the refresh as failed, without a nested refresh and without the
\* refresh request or any other request being sent.
C24_RefreshRequest ==
    [][/\ \A id \in StartedNow :
             LET r == refreshes'[id] IN
             /\ r.state = "pending"
             /\ r.opts.endpoint = "/auth/refresh" /\ r.opts.method = "POST"
             /\ r.opts.skipTokenRefresh
             /\ r.auth = NoAuth
             /\ r.body = refreshToken /\ r.body # Null
       /\ \A id \in InFlight(refreshes) :
             RefreshRespondError(id, 401)
             => /\ refreshes' = [refreshes EXCEPT ![id] = SettledRefresh]
                /\ \E s \in Range(settled') :
                      s.id = id /\ s.outcome = "failed" /\ s.errStatus = 401
                /\ ~isRefreshing' /\ refreshPromise' = Null
                /\ SentNow = {}]_vars

\* C24 witness: a refresh request has just been answered 401 while a refresh
\* token other than the one it carried is held.
C24_Witness ==
    \E s \in Range(settled) :
        /\ s.outcome = "failed" /\ s.errStatus = 401
        /\ s.rec.body = 1 /\ s.rec.auth = NoAuth
        /\ s.before[1] # Null
        /\ s.before[2] \notin {Null, s.rec.body}

\* C25: if every request in flight is eventually answered, every call that
\* has sent its request or waits on a refresh eventually completes, with a
\* result or with an error.
C25_EveryCallCompletes ==
    \A c \in Calls :
        (calls[c].pc \in {"sent", "waiting"}) ~> (calls[c].pc = "done")

\* C25 witness: two calls wait on the same refresh.
C25_Witness ==
    /\ \A c \in Calls : calls[c].pc = "waiting"
    /\ \E id \in InFlight(refreshes) : Len(refreshes[id].waiters) = MaxCalls


\* ------------------------------------------------------------------- C26
\* The notifications of a lost device session that the last step made for
\* call c.
InvalidNotes(c) == {i \in NotesOf(c) : notes[i].cb = "onDeviceSessionInvalid"}

\* The runs of the timer callback whose getDeviceInfo failed with 401 in the
\* last step; each was started by a heartbeat that failed with 401.
InvalidatedCycles ==
    {f \in Range(finished) : f.rec.cycle = 2 /\ f.errStatus = 401}

\* C26: a heartbeat cycle whose heartbeat and whose getDeviceInfo both fail
\* with 401 clears the credentials once and calls onDeviceSessionInvalid once,
\* both when getDeviceInfo fails: the cycle has cleared and notified nothing
\* while it runs, and it ends with one clear, one notification (when the
\* callback is registered) and no credentials.
C26_OneInvalidationPerCycle ==
    /\ \A f \in InvalidatedCycles :
          /\ f.rec.invalidations = 1
          /\ Cardinality(InvalidNotes(f.call)) = IF onDeviceSessionInvalid THEN 1 ELSE 0
          /\ f.creds = <<Null, Null, Null>>
    /\ \A c \in Calls :
          calls[c].cycle # 0 =>
              /\ calls[c].invalidations = 0
              /\ InvalidNotes(c) = {}

\* A cycle ends on the 401 of its getDeviceInfo with the callback registered
\* and credentials to clear.
C26_Witness ==
    \E f \in InvalidatedCycles :
        /\ onDeviceSessionInvalid
        /\ f.before # <<Null, Null, Null>>
        /\ f.rec.op = "getDeviceInfo"


\* ------------------------------------------------------------------- C27
\* The runs of the timer callback that the step begins.
TickedNow ==
    {c \in Calls : calls[c].pc = "idle" /\ calls'[c].pc # "idle" /\ calls'[c].cycle = 1}

\* C27: once stopDeviceHeartbeat has cleared the interval the timer begins no
\* further heartbeat, and only stopDeviceHeartbeat ends the timer: a step that
\* ends it does nothing else, so a failed heartbeat or a lost device session,
\* which complete a call, leave the timer as it was.
C27_OnlyStopEndsTheTimer ==
    [][/\ timer = "cleared" => (timer' = "cleared" /\ TickedNow = {})
       /\ (timer = "active" /\ timer' # "active") =>
              /\ timer' = "cleared"
              /\ calls' = calls
              /\ refreshes' = refreshes
              /\ <<token, refreshToken, deviceToken>>' = <<token, refreshToken, deviceToken>>
       /\ finished' # <<>> => timer' = timer]_vars

\* The timer was stopped after it had lost the device session, with a run of
\* its callback still possible had it not been stopped.
C27_Witness ==
    /\ timer = "cleared"
    /\ deviceToken = Null
    /\ \E c \in Calls : calls[c].pc = "idle"
    /\ \E c \in Calls : calls[c].pc = "done"


\* ------------------------------------------------------------------- C28
\* The completions of the last step that ran getDeviceInfo's handling of a
\* 401 (clearTokens, then the notification), and those among them that ran it
\* for the second time: the device token was already cleared, or an earlier
\* completion of the same step ran it.
Invalidated(f) == f.rec.op = "getDeviceInfo" /\ f.errStatus = 401

SecondInvalidations ==
    {i \in DOMAIN finished :
        /\ Invalidated(finished[i])
        /\ \/ finished[i].before[3] = Null
           \/ \E j \in 1..(i - 1) : Invalidated(finished[j])}

\* C28 (as claimed): when the handling of a lost device session has run twice,
\* one after the other or from two heartbeat cycles that fail together, the
\* client has issued at most one refresh request in all, and the second clear
\* leaves no credentials.
C28_InvalidationIdempotent ==
    \A i \in SecondInvalidations :
        /\ Len(refreshes) <= 1
        /\ finished[i].creds = <<Null, Null, Null>>


\* ------------------------------------------------------------------- C29
\* The client with the callbacks in cfg registered, in the same state
\* otherwise.
WithCallbacks(st, cfg) ==
    [st EXCEPT !.onTokenRefresh = cfg[1], !.onAuthError = cfg[2],
               !.onDeviceSessionInvalid = cfg[3]]

\* A state without what only tells of notifications: which callbacks are
\* registered, the notifications made and their count per call.  What is left
\* is the requests in flight and sent, the outcomes of the calls and the
\* credentials.
Erase(st) ==
    [st EXCEPT !.onTokenRefresh = FALSE, !.onAuthError = FALSE,
               !.onDeviceSessionInvalid = FALSE,
               !.notes = <<>>,
               !.calls = [c \in Calls |-> [st.calls[c] EXCEPT !.authErrors = 0]],
               !.finished = [i \in DOMAIN st.finished |->
                                [st.finished[i] EXCEPT !.rec.authErrors = 0]]]

\* Every operation and every server response that is possible now has the
\* same effect, notifications aside, on the client as it is and on the client
\* without callbacks.
CallbacksOnlyNotify ==
    (onTokenRefresh \/ onAuthError \/ onDeviceSessionInvalid) =>
        LET other == WithCallbacks(St, <<FALSE, FALSE, FALSE>>) IN
        /\ \A c \in Calls :
              calls[c].pc = "idle" =>
                  /\ Erase(Send([St EXCEPT !.calls[c].op = "getDeviceInfo"], c,
                                Options("getDeviceInfo")))
                     = Erase(Send([other EXCEPT !.calls[c].op = "getDeviceInfo"], c,
                                  Options("getDeviceInfo")))
                  /\ Erase(Send([St EXCEPT !.calls[c].op = "deviceHeartbeat",
                                           !.calls[c].cycle = 1], c,
                                Options("deviceHeartbeat")))
                     = Erase(Send([other EXCEPT !.calls[c].op = "deviceHeartbeat",
                                              !.calls[c].cycle = 1], c,
                                  Options("deviceHeartbeat")))
        /\ \A c \in Calls, status \in OkStatus \cup ErrStatus :
              calls[c].pc = "sent" =>
                  Erase(Response(St, c, status)) = Erase(Response(other, c, status))
        /\ \A id \in InFlight(refreshes) :
              /\ Erase(RefreshFulfilled([St EXCEPT !.issued = @ + 1], id, issued + 1))
                 = Erase(RefreshFulfilled([other EXCEPT !.issued = @ + 1], id, issued + 1))
              /\ \A status \in ErrStatus \cup {NoStatus} :
                    Erase(RefreshRejected(St, id, status))
                    = Erase(RefreshRejected(other, id, status))

\* What the last step did to recover from the 401 of call c's getDeviceInfo.
RecoveryNotes(c) ==
    {i \in NotesOf(c) : notes[i].cb \in {"onDeviceSessionInvalid", "reload"}}

\* C29 (as claimed): the callbacks only notify, and a getDeviceInfo that fails
\* with 401 runs exactly one of onDeviceSessionInvalid and the page reload.
C29_ExactlyOneRecovery ==
    /\ CallbacksOnlyNotify
    /\ \A f \in Range(finished) :
          Invalidated(f) => Cardinality(RecoveryNotes(f.call)) = 1

\* C29 (amended): the callbacks only notify, and a getDeviceInfo that fails
\* with 401 runs onDeviceSessionInvalid when it is registered, else reloads
\* the page when there is a page, else does nothing more; it never runs both.
C29_AtMostOneRecovery ==
    /\ CallbacksOnlyNotify
    /\ \A f \in Range(finished) :
          Invalidated(f) =>
              /\ Cardinality(RecoveryNotes(f.call)) =
                     IF onDeviceSessionInvalid \/ HasWindow(St) THEN 1 ELSE 0
              /\ \A i \in RecoveryNotes(f.call) :
                     notes[i].cb = IF onDeviceSessionInvalid
                                   THEN "onDeviceSessionInvalid" ELSE "reload"

\* A getDeviceInfo fails with 401 where no callback is registered and there is
\* no page to reload, having cleared credentials.
C29_Witness ==
    \E f \in Range(finished) :
        /\ Invalidated(f)
        /\ ~onDeviceSessionInvalid
        /\ ~HasWindow(St)
        /\ f.before # <<Null, Null, Null>>
        /\ f.creds = <<Null, Null, Null>>


Quiescent ==
    /\ \A c \in Calls : calls[c].pc \in {"idle", "done"}
    /\ InFlight(refreshes) = {}

\* C31 (as claimed): whenever every operation of a client made by
\* createClient has completed, a new createClient on the same storage and key
\* would start with the tokens the client holds.
C31_PersistenceRoundTrip ==
    (persist /\ Quiescent) =>
        LoadTokens(stores["storage"].item) = <<token, refreshToken, deviceToken>>


\* ------------------------------------------------------------------- C32
\* isWithinLimit as the claim states it: false for null, true for -1 and
\* usage < limit otherwise.
WithinAsStated ==
    IF util.limit = NullValue THEN FALSE
    ELSE IF util.limit.n = -1 THEN TRUE
    ELSE util.usage < util.limit.n

\* The limit is a finite one: neither null nor -1.
FiniteLimit == util.limit # NullValue /\ util.limit.n >= 0

\* C32: isWithinLimit is false for a null limit, true for -1 and (usage <
\* limit) otherwise; getRemainingCapacity is null for null, -1 for -1 and
\* otherwise the larger of 0 and limit - usage, hence not negative; and for a
\* finite limit isWithinLimit holds exactly when the remaining capacity is
\* positive.
C32_LimitUtilities ==
    /\ util.within # Undefined => util.within.b = WithinAsStated
    /\ util.remaining # Undefined =>
          /\ util.limit = NullValue => util.remaining = NullValue
          /\ util.limit # NullValue =>
                /\ util.remaining.json = "number"
                /\ util.limit.n = -1 => util.remaining.n = -1
                /\ FiniteLimit =>
                      /\ util.remaining.n >= 0
                      /\ util.remaining.n >= util.limit.n - util.usage
                      /\ util.remaining.n \in {0, util.limit.n - util.usage}
    /\ (FiniteLimit /\ util.within # Undefined /\ util.remaining # Undefined) =>
          (util.within.b <=> util.remaining.n > 0)

\* Both utilities were applied to a usage above a finite, positive limit.
C32_Witness ==
    /\ FiniteLimit
    /\ util.limit.n > 0
    /\ util.usage > util.limit.n
    /\ util.within # Undefined
    /\ util.remaining # Undefined


\* ------------------------------------------------------------------- C33
\* The credentials held.
Creds == <<token, refreshToken, deviceToken>>

\* C33: a logout forgets token and refreshToken when its request, or the
\* retry of it after a refresh, has succeeded, and not before; a logout that
\* fails leaves the credentials as they were; either way the device token is
\* as before and the logout makes no onTokenRefresh notification.
C33_LogoutClearsOnSuccess ==
    [][/\ \A f \in Range(finished') :
             f.rec.op = "logout" =>
                 /\ f.rec.sends >= 1
                 /\ f.result = "ok" => f.creds = <<Null, Null, f.before[3]>>
                 /\ (f.result # "ok" /\ Len(finished') = 1) =>
                        /\ f.creds = f.before
                        /\ Creds' = Creds
                 /\ \A i \in DOMAIN notes' :
                        notes'[i].call = f.call => notes'[i].cb # "onTokenRefresh"
       /\ \A c \in SentNow :
             (calls'[c].op = "logout" /\ calls[c].pc = "idle") => Creds' = Creds]_vars

\* A logout fails on the retry that followed a successful refresh, with the
\* refreshed tokens still held.
C33_Witness ==
    \E f \in Range(finished) :
        /\ f.rec.op = "logout"
        /\ f.result = "error"
        /\ f.rec.sends = 2
        /\ token = issued /\ refreshToken = issued /\ issued > 1


\* ------------------------------------------------------------------- C34
\* The heartbeat request of call c is awaiting its response, and the step
\* answers it with a status other than 401 or fails it in transport.
HeartbeatFailsOtherwise(c) ==
    /\ calls[c].cycle = 1
    /\ calls[c].pc = "sent"
    /\ \/ \E status \in ErrStatus \ {401} : Respond(c, status)
       \/ TransportFailure(c)

\* C34: a heartbeat that fails with anything but a 401 ends the run of the
\* timer callback at once: no getDeviceInfo is sent, no credential changes and
\* nothing tells of a lost session; and whatever the outcomes of the heartbeat
\* and of the getDeviceInfo check, the timer callback ends without raising.
C34_OtherHeartbeatFailuresDropped ==
    [][/\ \A c \in Calls :
             HeartbeatFailsOtherwise(c) =>
                 /\ calls'[c] = DoneCall
                 /\ SentNow = {}
                 /\ Creds' = Creds
                 /\ notes' = <<>>
                 /\ \E f \in Range(finished') : f.call = c /\ f.result = "swallowed"
       /\ \A f \in Range(finished') :
             /\ f.rec.cycle # 0 => f.result \in {"ok", "swallowed"}
             /\ (f.rec.cycle = 1 /\ f.result # "ok") => f.errStatus # 401]_vars

\* A heartbeat has failed with another status than 401 while the device
\* token is held and the timer runs, and the run of the callback ended there.
C34_Witness ==
    /\ timer = "active"
    /\ deviceToken = 1
    /\ \E f \in Range(finished) :
          /\ f.rec.cycle = 1
          /\ f.rec.op = "deviceHeartbeat"
          /\ f.result = "swallowed"
          /\ f.errStatus = 500


\* ------------------------------------------------------------------- C35
\* All the onAuthError invocations of the last step, and the calls that
\* failed in it.
AllAuthErrorNotes == {i \in DOMAIN notes : notes[i].cb = "onAuthError"}
FailedNow == {i \in DOMAIN finished : finished[i].result = "error"}

\* C35 (as claimed): onAuthError is invoked at most once for each call that
\* fails and for nothing else: when a refresh request is answered 401, the
\* calls that awaited it get one invocation each and the refresh request gets
\* none of its own.
C35_OneAuthErrorPerFailedCall ==
    /\ \A f \in Range(finished) :
          f.result = "error" =>
              /\ f.rec.authErrors <= 1
              /\ Cardinality(AuthErrorNotes(f.call)) <= 1
    /\ Cardinality(AllAuthErrorNotes) <= Cardinality(FailedNow)


\* ------------------------------------------------------------------- C36
\* Another operation has installed credentials since refresh id started: the
\* token pair held is not the one held when the refresh began.
InstalledSince(id) ==
    <<token, refreshToken>> #
        <<refreshes[id].tokenAtStart, refreshes[id].refreshTokenAtStart>>

\* C36 (as claimed): when a refresh succeeds after a logout, clearTokens,
\* login or setTokens completed while it was in flight, the token pair that
\* operation left is kept.
C36_RefreshKeepsInstalled ==
    [][\A id \in InFlight(refreshes) :
          (InstalledSince(id) /\ RefreshRespondOk(id)) =>
              /\ token' = token
              /\ refreshToken' = refreshToken]_vars


\* ------------------------------------------------------------------- C37
\* The runs of the timer callback that ended in the last step on the 401 of
\* their getDeviceInfo and whose heartbeat had been sent without any token,
\* after the credentials were cleared: no token has been set since the client
\* was made, so none is held only once they were cleared.
LateInvalidations ==
    {f \in Range(finished) :
        /\ Invalidated(f)
        /\ f.rec.cycle = 2
        /\ f.rec.tickAuth = NoAuth
        /\ f.before = <<Null, Null, Null>>}

\* C37 (as claimed): a tick of the heartbeat timer that comes after the
\* credentials were cleared neither clears them again nor invokes
\* onDeviceSessionInvalid or the page reload again.
C37_InvalidatedOnce ==
    \A f \in LateInvalidations :
        /\ f.rec.invalidations = 0
        /\ RecoveryNotes(f.call) = {}


\* ------------------------------------------------------------------- C38
\* C38: without setTokens, a refresh token that a refresh has exchanged is not
\* sent to /auth/refresh again.  A refresh request carries the refresh token
\* that was held when it started; the refresh token held is always null or
\* the one of the newest login or refresh response, which no earlier response
\* carried; and a refresh that has just succeeded leaves that newest token
\* held, not the one it carried, which no request in flight carries either.
C38_ExchangedTokenNotReused ==
    /\ refreshToken \in {Null, issued}
    /\ \A id \in InFlight(refreshes) :
          /\ refreshes[id].body = refreshes[id].refreshTokenAtStart
          /\ refreshes[id].body # Null
          /\ refreshes[id].body <= issued
    /\ \A s \in Range(settled) :
          s.outcome = "ok" =>
              /\ s.rec.body < s.data
              /\ s.data = issued
              /\ s.after[2] = s.data
              /\ \A id \in InFlight(refreshes) : refreshes[id].body # s.rec.body

\* A second refresh is in flight and carries the refresh token that the
\* first refresh returned.
C38_Witness ==
    /\ Len(refreshes) = 2
    /\ refreshes[1] = SettledRefresh
    /\ refreshes[2].state = "pending"
    /\ refreshes[2].body = 2
    /\ issued = 2


\* ------------------------------------------------------------------- C39
\* The runs of the timer callback that await a response, to their heartbeat
\* or to their getDeviceInfo, or the refresh that either one waits on.
RunningCycles ==
    {c \in Calls : calls[c].cycle # 0 /\ calls[c].pc \notin {"idle", "done"}}

\* C39 (as claimed): the timer starts no run of its callback while an earlier
\* run still awaits a response: at most one run is under way.
C39_CyclesDoNotOverlap ==
    Cardinality(RunningCycles) <= 1


\* ------------------------------------------------------------------- C40
\* C40: between any two tasks isRefreshing is true exactly when refreshPromise
\* is set, and both exactly when a refresh request awaits its response, the
\* promise being that of this request; so every call that has entered
\* _refreshAccessToken was handed a promise, never null.
C40_FlagMatchesPromise ==
    /\ isRefreshing <=> refreshPromise # Null
    /\ isRefreshing <=> InFlight(refreshes) # {}
    /\ refreshPromise # Null => InFlight(refreshes) = {refreshPromise}
    /\ \A c \in Calls : calls[c].entered > 0 => calls[c].joined # Null

\* A call awaits the promise of the second refresh, which it started after
\* the first one had settled and cleared both fields.
C40_Witness ==
    /\ isRefreshing
    /\ refreshPromise = 2
    /\ refreshes[1] = SettledRefresh
    /\ \E c \in Calls :
          /\ calls[c].pc = "waiting"
          /\ calls[c].entered = 1
          /\ calls[c].joined = refreshPromise
=============================================================================
